---- MODULE Spec2Model ----
(***************************************************************************)
(* Model of explorer.py: one run of main().  A run parses its arguments,   *)
(* loads a CSV file into a DataFrame and then goes through the optional    *)
(* stages summary, column, filter, save and upload.  The pandas and boto3  *)
(* calls are external collaborators: their results are either computed     *)
(* (query, to_csv, describe, split) or drawn from the outcomes the call    *)
(* can have (read_csv, to_csv failing, boto3.client, upload_file).         *)
(*                                                                         *)
(* An optional argument is <<>> when the flag is absent (Python None) and  *)
(* <<v>> when the flag was given value v.  --column, --filter and --out    *)
(* carry strings; --upload carries a sequence of characters so that        *)
(* str.split can be computed.                                              *)
(***************************************************************************)
EXTENDS Integers, Sequences, FiniteSets, TLC

VARIABLES pc, args, df, loaded, disk, log, ran, net, seen, exitCode, failedAt, uncaught

vars == <<pc, args, df, loaded, disk, log, ran, net, seen, exitCode, failedAt, uncaught>>

\* ------------------------------------------------------------------ bounds
MaxRows == 2
MaxVal == 2
MaxLen == 3

\* ------------------------------------------------------------------ data
\* The missing value pandas gives an empty CSV cell.
NaN == 0

Cells == {NaN} \cup (1..MaxVal)

Columns == <<"id", "hr">>

\* read_csv types a column with a missing value as float64, otherwise int64.
Dtype(vals) == IF \E i \in DOMAIN vals : vals[i] = NaN THEN "float64" ELSE "int64"

\* The DataFrame read from a file whose hr column holds vals; id counts the rows.
MkDf(vals) ==
  [columns |-> Columns,
   dtype |-> Dtype(vals),
   rows |-> [i \in 1..Len(vals) |-> [id |-> i, hr |-> vals[i]]]]

Datasets == UNION {{MkDf(vals) : vals \in [1..n -> Cells]} : n \in 0..MaxRows}

NoDf == [columns |-> <<>>, dtype |-> "int64", rows |-> <<>>]

Alphabet == {"a", "/"}

UploadTargets == UNION {[1..n -> Alphabet] : n \in 0..MaxLen}

ColumnNames == {"", "hr", "zz"}

FilterExprs == {"", "hr == hr", "hr != hr", "hr > 1", "zz > 1"}

OutPaths == {"", "out.csv"}

Opt(S) == {<<>>} \cup {<<v>> : v \in S}

Argvs ==
  [help : BOOLEAN,
   file : Opt({"data.csv"}),
   summary : BOOLEAN,
   column : Opt(ColumnNames),
   filter : Opt(FilterExprs),
   out : Opt(OutPaths),
   upload : Opt(UploadTargets)]

\* What a previous run may have left at the --out path.
Stale == <<<<"old">>>>

\* ------------------------------------------------------------------ helpers
\* Python truth of an optional string argument: None and "" are false.
Truthy(o) == o # <<>> /\ o[1] # ""

\* Python truth of the --upload value (a sequence of characters).
TruthyChars(o) == o # <<>> /\ o[1] # <<>>

Info(msg, a) == [level |-> "INFO", msg |-> msg, args |-> a]

Error(msg, a) == [level |-> "ERROR", msg |-> msg, args |-> a]

RECURSIVE FindSep(_, _)
\* Index of the first "/" of s at or after i, 0 when there is none.
FindSep(s, i) ==
  IF i > Len(s) THEN 0
  ELSE IF s[i] = "/" THEN i
  ELSE FindSep(s, i + 1)

SplitOnce_Partition(s) ==
  LET k == FindSep(s, 1)
  IN IF k = 0 THEN <<s, <<>>>>
     ELSE <<SubSeq(s, 1, k - 1), SubSeq(s, k + 1, Len(s))>>

\* s.split("/", 1): one part when s has no "/", else the text before the
\* first "/" and everything after it.
SplitOnce(s) ==
  LET k == FindSep(s, 1)
  IN IF k = 0 THEN <<s>>
     ELSE <<SubSeq(s, 1, k - 1), SubSeq(s, k + 1, Len(s))>>

InColumns(c, d) == \E i \in DOMAIN d.columns : d.columns[i] = c

\* df.query: the expression's value on one row.  A comparison with a
\* missing value is false, except != which is true.
EvalRow(expr, r) ==
  CASE expr = "hr == hr" -> r.hr # NaN
    [] expr = "hr != hr" -> r.hr = NaN
    [] expr = "hr > 1" -> r.hr # NaN /\ r.hr > 1
    [] OTHER -> FALSE

\* The expressions the evaluator accepts on d; any other raises.
QueryOk(d, expr) == expr \in {"hr == hr", "hr != hr", "hr > 1"} /\ InColumns("hr", d)

Query_Complement(d, expr) ==
  [d EXCEPT !.rows = SelectSeq(d.rows, LAMBDA r : ~EvalRow(expr, r))]

\* df.query(expression): the rows on which it is true, in their order.
Query(d, expr) ==
  [d EXCEPT !.rows = SelectSeq(d.rows, LAMBDA r : EvalRow(expr, r))]

PreviewRows == 10

\* df.head(n)
DfHead(d, n) ==
  [d EXCEPT !.rows = SubSeq(d.rows, 1, IF Len(d.rows) < n THEN Len(d.rows) ELSE n)]

\* One CSV field: empty for a missing value, else the number as its dtype
\* prints it.
Field(v, dtype) == IF v = NaN THEN <<>> ELSE <<v, dtype>>

\* df.to_csv(path, index=False): the header line, then one line per row.
ToCsv(d) ==
  <<d.columns>> \o
  [i \in 1..Len(d.rows) |->
     <<Field(d.rows[i].id, "int64"), Field(d.rows[i].hr, d.dtype)>>]

\* The outcomes of df.to_csv: it writes the file, or raises before opening
\* it (the path is left as it was), or raises after opening it for writing.
WriteOutcomes == {"ok", "raise", "raise_opened"}

\* The content of a file opened for writing and not written.
Truncated == <<>>

\* os.path.exists(args.out)
PathExists(dsk) == dsk # <<>>

\* Series.describe(): the name, the count of present values, the largest.
ColumnStats(d, c) ==
  LET present == {d.rows[i][c] : i \in DOMAIN d.rows} \ {NaN}
  IN [name |-> c,
      count |-> Cardinality({i \in DOMAIN d.rows : d.rows[i][c] # NaN}),
      max |-> IF present = {} THEN NaN
              ELSE CHOOSE m \in present : \A x \in present : x <= m]

\* The order of the stages in main.
NextStage_FilterFirst(s) ==
  CASE s = "parse" -> "load"
    [] s = "load" -> "summary"
    [] s = "summary" -> "filter"
    [] s = "filter" -> "column"
    [] s = "column" -> "save"
    [] s = "save" -> "upload"
    [] s = "upload" -> "return"

NextStage(s) ==
  CASE s = "parse" -> "load"
    [] s = "load" -> "summary"
    [] s = "summary" -> "column"
    [] s = "column" -> "filter"
    [] s = "filter" -> "save"
    [] s = "save" -> "upload"
    [] s = "upload" -> "return"

StageErrorCode == 1

ArgErrorCode_AsStage == StageErrorCode

ArgErrorCode == 2

\* The status of an interpreter that ends on an uncaught exception.
UncaughtCode == 1

\* ------------------------------------------------------------------ functions
\* CleanArgumentParser.error(message)
ParserError(message) ==
  [log |-> <<Error("Argument error: %s", <<message>>)>>, exit |-> <<ArgErrorCode>>]

\* load_data(path), given what pd.read_csv does: r is <<d>> when it returns
\* DataFrame d and <<>> when it raises.
load_data(path, r) ==
  IF r # <<>>
  THEN [log |-> <<Info("Loading data from %s", <<path>>)>>, exit |-> <<>>, value |-> r[1]]
  ELSE [log |-> <<Info("Loading data from %s", <<path>>),
                  Error("Failed to load CSV file '%s': %s", <<path>>)>>,
        exit |-> <<StageErrorCode>>, value |-> NoDf]

\* print_summary(df)
print_summary(d) ==
  [log |-> <<Info("Generating summary statistics", <<>>),
             Info("DataFrame info:\n%s", <<d.columns, Len(d.rows)>>),
             Info("Summary statistics:\n%s",
                  <<[i \in DOMAIN d.columns |-> ColumnStats(d, d.columns[i])]>>)>>,
   exit |-> <<>>]

describe_column_NoExit(d, column) ==
  IF ~InColumns(column, d)
  THEN [log |-> <<Error("Column '%s' not found. Available columns: %s",
                        <<column, d.columns>>)>>,
        exit |-> <<>>]
  ELSE [log |-> <<Info("Describing column: %s", <<column>>),
                  Info("\n%s", <<ColumnStats(d, column)>>)>>,
        exit |-> <<>>]

\* describe_column(df, column)
describe_column(d, column) ==
  IF ~InColumns(column, d)
  THEN [log |-> <<Error("Column '%s' not found. Available columns: %s",
                        <<column, d.columns>>)>>,
        exit |-> <<StageErrorCode>>]
  ELSE [log |-> <<Info("Describing column: %s", <<column>>),
                  Info("\n%s", <<ColumnStats(d, column)>>)>>,
        exit |-> <<>>]

\* filter_rows(df, expression)
filter_rows(d, expression) ==
  IF QueryOk(d, expression)
  THEN [log |-> <<Info("Applying filter: %s", <<expression>>)>>,
        exit |-> <<>>, value |-> Query(d, expression)]
  ELSE [log |-> <<Info("Applying filter: %s", <<expression>>),
                  Error("Invalid filter expression '%s': %s", <<expression>>)>>,
        exit |-> <<StageErrorCode>>, value |-> d]

\* The outcomes of a boto3 call: it returns, or raises a ValueError (botocore
\* raises subclasses of it, such as InvalidRegionError), or raises another
\* Exception.
Outcomes == {"ok", "ValueError", "Exception"}

\* upload_to_s3(local_path, bucket, key), given the outcome c of
\* boto3.client("s3") and the outcome u of s3.upload_file.  raise names the
\* exception that leaves the function, <<>> when none does.
upload_to_s3(local_path, bucket, key, c, u) ==
  LET start == <<Info("Uploading %s to s3://%s/%s", <<local_path, bucket, key>>)>>
      client == <<[fn |-> "boto3.client", args |-> <<"s3">>]>>
      upload == <<[fn |-> "upload_file", args |-> <<local_path, bucket, key>>]>>
  IN IF c # "ok"
     THEN [log |-> start, net |-> client, exit |-> <<>>, raise |-> <<c>>]
     ELSE IF u = "ok"
     THEN [log |-> start \o <<Info("Upload successful", <<>>)>>,
           net |-> client \o upload, exit |-> <<>>, raise |-> <<>>]
     ELSE [log |-> start \o <<Error("S3 upload failed: %s", <<u>>)>>,
           net |-> client \o upload, exit |-> <<StageErrorCode>>, raise |-> <<>>]

\* ------------------------------------------------------------------ state
Stages == <<"load", "summary", "column", "filter", "save", "upload">>

NotSeen == [s \in {"summary", "column", "filter", "save", "upload"} |-> <<>>]

Init ==
  /\ pc = "parse"
  /\ args \in Argvs
  /\ df = NoDf
  /\ loaded = <<>>
  /\ disk \in {<<>>, <<Stale>>}
  /\ log = <<>>
  /\ ran = <<>>
  /\ net = <<>>
  /\ seen = NotSeen
  /\ exitCode = <<>>
  /\ failedAt = <<>>
  /\ uncaught = FALSE

Exit_KeepsGoing(stage, code) ==
  IF code = 0 \/ stage = "parse"
  THEN /\ pc' = "exited"
       /\ exitCode' = <<code>>
       /\ failedAt' = IF code = 0 THEN <<>> ELSE <<stage>>
  ELSE /\ pc' = NextStage(stage)
       /\ exitCode' = exitCode
       /\ failedAt' = <<stage>>

\* sys.exit(code) in stage: the run is over.
Exit(stage, code) ==
  /\ pc' = "exited"
  /\ exitCode' = <<code>>
  /\ failedAt' = IF code = 0 THEN <<>> ELSE <<stage>>

\* The stage is over and main goes on to the next one.
Continue(stage) ==
  /\ pc' = NextStage(stage)
  /\ UNCHANGED <<exitCode, failedAt>>

\* parser.parse_args(): -h prints the help and exits 0; a missing --file
\* goes to CleanArgumentParser.error.
ParseArgs ==
  /\ pc = "parse"
  /\ IF args.help
     THEN Exit("parse", 0) /\ UNCHANGED log
     ELSE IF args.file = <<>>
     THEN LET r == ParserError("the following arguments are required: --file")
          IN log' = log \o r.log /\ Exit("parse", r.exit[1])
     ELSE Continue("parse") /\ UNCHANGED log
  /\ UNCHANGED <<args, df, loaded, disk, ran, net, seen, uncaught>>

\* df = load_data(args.file)
Load ==
  /\ pc = "load"
  /\ \E r \in Opt(Datasets) :
       LET res == load_data(args.file[1], r)
       IN /\ log' = log \o res.log
          /\ IF res.exit # <<>>
             THEN Exit("load", res.exit[1]) /\ UNCHANGED <<df, loaded>>
             ELSE Continue("load") /\ df' = res.value /\ loaded' = <<res.value>>
  /\ ran' = Append(ran, "load")
  /\ UNCHANGED <<args, disk, net, seen, uncaught>>

\* if args.summary: print_summary(df)
Summary ==
  /\ pc = "summary"
  /\ IF args.summary
     THEN /\ log' = log \o print_summary(df).log
          /\ ran' = Append(ran, "summary")
          /\ seen' = [seen EXCEPT !["summary"] = <<df>>]
     ELSE UNCHANGED <<log, ran, seen>>
  /\ Continue("summary")
  /\ UNCHANGED <<args, df, loaded, disk, net, uncaught>>

\* if args.column: describe_column(df, args.column)
Column ==
  /\ pc = "column"
  /\ IF Truthy(args.column)
     THEN LET res == describe_column(df, args.column[1])
          IN /\ log' = log \o res.log
             /\ ran' = Append(ran, "column")
             /\ seen' = [seen EXCEPT !["column"] = <<df>>]
             /\ IF res.exit # <<>> THEN Exit("column", res.exit[1]) ELSE Continue("column")
     ELSE Continue("column") /\ UNCHANGED <<log, ran, seen>>
  /\ UNCHANGED <<args, df, loaded, disk, net, uncaught>>

Filter_NoAssign ==
  /\ pc = "filter"
  /\ IF Truthy(args.filter)
     THEN LET res == filter_rows(df, args.filter[1])
          IN /\ ran' = Append(ran, "filter")
             /\ seen' = [seen EXCEPT !["filter"] = <<df>>]
             /\ IF res.exit # <<>>
                THEN /\ log' = log \o res.log
                     /\ Exit("filter", res.exit[1])
                     /\ UNCHANGED df
                ELSE /\ log' = log \o res.log \o
                          <<Info("Filtered rows (first 10):\n%s",
                                 <<DfHead(res.value, PreviewRows)>>)>>
                     /\ UNCHANGED df
                     /\ Continue("filter")
     ELSE Continue("filter") /\ UNCHANGED <<log, ran, seen, df>>
  /\ UNCHANGED <<args, loaded, disk, net, uncaught>>

\* if args.filter: df = filter_rows(df, args.filter), then the preview
Filter ==
  /\ pc = "filter"
  /\ IF Truthy(args.filter)
     THEN LET res == filter_rows(df, args.filter[1])
          IN /\ ran' = Append(ran, "filter")
             /\ seen' = [seen EXCEPT !["filter"] = <<df>>]
             /\ IF res.exit # <<>>
                THEN /\ log' = log \o res.log
                     /\ Exit("filter", res.exit[1])
                     /\ UNCHANGED df
                ELSE /\ log' = log \o res.log \o
                          <<Info("Filtered rows (first 10):\n%s",
                                 <<DfHead(res.value, PreviewRows)>>)>>
                     /\ df' = res.value
                     /\ Continue("filter")
     ELSE Continue("filter") /\ UNCHANGED <<log, ran, seen, df>>
  /\ UNCHANGED <<args, loaded, disk, net, uncaught>>

Save_NoExit ==
  /\ pc = "save"
  /\ IF Truthy(args.out)
     THEN /\ ran' = Append(ran, "save")
          /\ seen' = [seen EXCEPT !["save"] = <<df>>]
          /\ \E w \in WriteOutcomes :
               IF w = "ok"
               THEN /\ disk' = <<ToCsv(df)>>
                    /\ log' = Append(log, Info("Data saved to %s", <<args.out[1]>>))
                    /\ Continue("save")
               ELSE /\ disk' = IF w = "raise_opened" THEN <<Truncated>> ELSE disk
                    /\ log' = Append(log, Error("Failed to save output CSV '%s': %s",
                                                <<args.out[1]>>))
                    /\ Continue("save")
     ELSE Continue("save") /\ UNCHANGED <<log, ran, seen, disk>>
  /\ UNCHANGED <<args, df, loaded, net, uncaught>>

\* if args.out: df.to_csv(args.out, index=False), then the handler of its
\* exceptions.
Save ==
  /\ pc = "save"
  /\ IF Truthy(args.out)
     THEN /\ ran' = Append(ran, "save")
          /\ seen' = [seen EXCEPT !["save"] = <<df>>]
          /\ \E w \in WriteOutcomes :
               IF w = "ok"
               THEN /\ disk' = <<ToCsv(df)>>
                    /\ log' = Append(log, Info("Data saved to %s", <<args.out[1]>>))
                    /\ Continue("save")
               ELSE /\ disk' = IF w = "raise_opened" THEN <<Truncated>> ELSE disk
                    /\ log' = Append(log, Error("Failed to save output CSV '%s': %s",
                                                <<args.out[1]>>))
                    /\ Exit("save", StageErrorCode)
     ELSE Continue("save") /\ UNCHANGED <<log, ran, seen, disk>>
  /\ UNCHANGED <<args, df, loaded, net, uncaught>>

\* not args.out or not os.path.exists(args.out)
UploadBlocked(a, dsk) == ~Truthy(a.out) \/ ~PathExists(dsk)

\* if args.upload: the precondition, the split, upload_to_s3 and the
\* handler of ValueError around both.
Upload ==
  /\ pc = "upload"
  /\ IF TruthyChars(args.upload)
     THEN /\ ran' = Append(ran, "upload")
          /\ seen' = [seen EXCEPT !["upload"] = <<df>>]
          /\ IF UploadBlocked(args, disk)
             THEN /\ log' = Append(log,
                       Error("You must specify --out and save a file before uploading to S3",
                             <<>>))
                  /\ Exit("upload", StageErrorCode)
                  /\ UNCHANGED <<net, uncaught>>
             ELSE LET parts == SplitOnce(args.upload[1])
                      format == Error("--upload must be in the format 'bucket/key'", <<>>)
                  IN IF Len(parts) # 2
                     THEN /\ log' = Append(log, format)
                          /\ Exit("upload", StageErrorCode)
                          /\ UNCHANGED <<net, uncaught>>
                     ELSE \E c \in Outcomes, u \in Outcomes :
                            LET res == upload_to_s3(args.out[1], parts[1], parts[2], c, u)
                            IN /\ net' = net \o res.net
                               /\ CASE res.raise = <<"ValueError">> ->
                                         /\ log' = log \o res.log \o <<format>>
                                         /\ Exit("upload", StageErrorCode)
                                         /\ UNCHANGED uncaught
                                    [] res.raise = <<"Exception">> ->
                                         /\ log' = log \o res.log
                                         /\ Exit("upload", UncaughtCode)
                                         /\ uncaught' = TRUE
                                    [] res.raise = <<>> /\ res.exit # <<>> ->
                                         /\ log' = log \o res.log
                                         /\ Exit("upload", res.exit[1])
                                         /\ UNCHANGED uncaught
                                    [] OTHER ->
                                         /\ log' = log \o res.log
                                         /\ Continue("upload")
                                         /\ UNCHANGED uncaught
     ELSE Continue("upload") /\ UNCHANGED <<log, ran, seen, net, uncaught>>
  /\ UNCHANGED <<args, df, loaded, disk>>

\* main returns and the interpreter exits with status 0.
Return ==
  /\ pc = "return"
  /\ Exit("return", 0)
  /\ UNCHANGED <<args, df, loaded, disk, log, ran, net, seen, uncaught>>

Next ==
  \/ ParseArgs
  \/ Load
  \/ Summary
  \/ Column
  \/ Filter
  \/ Save
  \/ Upload
  \/ Return

Spec == Init /\ [][Next]_vars

\* ------------------------------------------------------------------ claims
\* The vocabulary of the claims, stated on the run's inputs and its record.
Given(o) == o # <<>>

HasSep(t) == \E i \in DOMAIN t : t[i] = "/"

Parsed == ~args.help /\ args.file # <<>>

InRan(s) == \E i \in DOMAIN ran : ran[i] = s

StageIdx(s) == IF s = "parse" THEN 0 ELSE CHOOSE i \in DOMAIN Stages : Stages[i] = s

Optional == {"summary", "column", "filter", "save", "upload"}

FlagGiven(s) ==
  CASE s = "summary" -> args.summary
    [] s = "column" -> Given(args.column)
    [] s = "filter" -> Given(args.filter)
    [] s = "save" -> Given(args.out)
    [] s = "upload" -> Given(args.upload)

FlagNonEmpty(s) ==
  CASE s = "summary" -> args.summary
    [] s = "column" -> Given(args.column) /\ args.column[1] # ""
    [] s = "filter" -> Given(args.filter) /\ args.filter[1] # ""
    [] s = "save" -> Given(args.out) /\ args.out[1] # ""
    [] s = "upload" -> Given(args.upload) /\ Len(args.upload[1]) > 0

NoEarlierFailure(s) == failedAt = <<>> \/ StageIdx(failedAt[1]) >= StageIdx(s)

LoggedMsg(m) == \E i \in DOMAIN log : log[i].msg = m

Logged(m, a) == \E i \in DOMAIN log : log[i].msg = m /\ log[i].args = a

Called(fn) == \E i \in DOMAIN net : net[i].fn = fn

SavedOk == LoggedMsg("Data saved to %s")

FormatMsg == "--upload must be in the format 'bucket/key'"

PrecondMsg == "You must specify --out and save a file before uploading to S3"

StageErrorMsgs ==
  {"Failed to load CSV file '%s': %s",
   "Column '%s' not found. Available columns: %s",
   "Invalid filter expression '%s': %s",
   "Failed to save output CSV '%s': %s",
   PrecondMsg, FormatMsg,
   "S3 upload failed: %s"}

InOrder ==
  /\ \A i, j \in DOMAIN ran : i < j => StageIdx(ran[i]) < StageIdx(ran[j])
  /\ ran # <<>> => ran[1] = "load"
  /\ ~Parsed => ran = <<>>

\* C1 as stated: the stages run in the fixed order, each at most once, Load
\* first, and at the end of a run an optional stage has run if and only if
\* its flag was given and no earlier stage failed.
C1_AsStated ==
  /\ InOrder
  /\ (pc = "exited" /\ Parsed) =>
       \A s \in Optional : InRan(s) <=> (FlagGiven(s) /\ NoEarlierFailure(s))

\* C1 amended: the same, where an optional stage has run if and only if its
\* flag was given with a non-empty value and no earlier stage failed.
C1_FixedOrder ==
  /\ InOrder
  /\ (pc = "exited" /\ Parsed) =>
       \A s \in Optional : InRan(s) <=> (FlagNonEmpty(s) /\ NoEarlierFailure(s))

C1_Witness ==
  /\ pc = "exited"
  /\ ran = Stages
  /\ exitCode = <<0>>

UploadOnlyAfterSave ==
  net # <<>> =>
    /\ Given(args.out)
    /\ InRan("save") /\ SavedOk
    /\ disk = <<ToCsv(seen["save"][1])>>

\* C2 as stated: the storage client is invoked only in a run where --out was
\* given, Save succeeded and the file exists; every run with --upload where
\* --out is missing or the file does not exist ends with exit code 1 and
\* never invokes the storage client.
C2_AsStated ==
  /\ UploadOnlyAfterSave
  /\ (pc = "exited" /\ Parsed /\ Given(args.upload)
        /\ (~Given(args.out) \/ disk = <<>>)) =>
       (exitCode = <<1>> /\ net = <<>>)

\* C2 amended: the same, for every run past argument parsing whose --upload
\* value is not empty (an empty --upload value skips the Upload stage).
C2_UploadNeedsSave ==
  /\ UploadOnlyAfterSave
  /\ (pc = "exited" /\ Parsed /\ Given(args.upload) /\ Len(args.upload[1]) > 0
        /\ (~Given(args.out) \/ args.out[1] = "" \/ disk = <<>>)) =>
       (exitCode = <<1>> /\ net = <<>>)

C2_Witness ==
  /\ pc = "exited"
  /\ Called("upload_file")
  /\ SavedOk
  /\ exitCode = <<0>>

\* C3: the exit code is 2 exactly when argument parsing failed, 1 exactly
\* when a stage failed (load, describe-column, filter, save, upload
\* precondition, upload target format, upload transport) and 0 exactly when
\* nothing failed.
C3_ExitCodes ==
  pc = "exited" =>
    LET parseFailed == ~args.help /\ args.file = <<>>
        stageFailed == uncaught \/ \E m \in StageErrorMsgs : LoggedMsg(m)
    IN /\ exitCode \in {<<0>>, <<1>>, <<2>>}
       /\ exitCode = <<2>> <=> parseFailed
       /\ exitCode = <<1>> <=> stageFailed
       /\ exitCode = <<0>> <=> (~parseFailed /\ ~stageFailed)
       /\ ~(parseFailed /\ stageFailed)

C3_Witness ==
  /\ pc = "exited"
  /\ exitCode = <<1>>
  /\ LoggedMsg("S3 upload failed: %s")

\* C4 as stated: every run whose --upload value contains no "/" ends with
\* exit code 1 and makes no network call.
C4_AsStated ==
  (pc = "exited" /\ Parsed /\ Given(args.upload) /\ ~HasSep(args.upload[1])) =>
    (exitCode = <<1>> /\ net = <<>>)

\* C4 amended: every run past argument parsing whose --upload value is not
\* empty and contains no "/" ends with exit code 1 and makes no network call.
C4_NoSeparator ==
  (pc = "exited" /\ Parsed /\ Given(args.upload) /\ Len(args.upload[1]) > 0
     /\ ~HasSep(args.upload[1])) =>
    (exitCode = <<1>> /\ net = <<>>)

C4_Witness ==
  /\ pc = "exited"
  /\ Given(args.upload) /\ ~HasSep(args.upload[1])
  /\ SavedOk
  /\ LoggedMsg(FormatMsg)
  /\ exitCode = <<1>>

\* The dataset the stages after Filter work on, told from the run's inputs.
Working == IF InRan("filter") THEN Query(loaded[1], args.filter[1]) ELSE loaded[1]

\* C5: Save writes the current working Dataset, the result of the filter if
\* Filter ran and the Dataset as loaded otherwise; Upload works on the same
\* Dataset, and Summarize and Describe-Column see the Dataset as loaded.
C5_SaveWritesWorking ==
  /\ seen["save"] # <<>> => seen["save"][1] = Working
  /\ SavedOk => disk = <<ToCsv(Working)>>
  /\ seen["upload"] # <<>> => seen["upload"][1] = Working
  /\ seen["summary"] # <<>> => seen["summary"][1] = loaded[1]
  /\ seen["column"] # <<>> => seen["column"][1] = loaded[1]
  /\ seen["filter"] # <<>> => seen["filter"][1] = loaded[1]

C5_Witness ==
  /\ pc = "exited"
  /\ InRan("summary") /\ InRan("column") /\ InRan("filter")
  /\ SavedOk
  /\ Len(loaded[1].rows) = MaxRows
  /\ Len(seen["save"][1].rows) = 1
  /\ disk = <<ToCsv(seen["save"][1])>>

\* C6: Describe-Column on a column of the Dataset does not fail the run and
\* logs that column's statistics; on any other name it logs the requested
\* name with the list of the Dataset's columns, the run ends with exit code
\* 1, and filter, save and upload do not run.
C6_DescribeColumn ==
  seen["column"] # <<>> =>
    LET c == args.column[1]
        d == seen["column"][1]
    IN IF \E i \in DOMAIN d.columns : d.columns[i] = c
       THEN /\ failedAt # <<"column">>
            /\ Logged("\n%s", <<ColumnStats(d, c)>>)
            /\ ~LoggedMsg("Column '%s' not found. Available columns: %s")
       ELSE /\ pc = "exited"
            /\ exitCode = <<1>>
            /\ Logged("Column '%s' not found. Available columns: %s",
                      <<c, d.columns>>)
            /\ ~InRan("filter") /\ ~InRan("save") /\ ~InRan("upload")
            /\ disk \in {<<>>, <<Stale>>}
            /\ net = <<>>

C6_Witness ==
  /\ pc = "exited"
  /\ args.column = <<"zz">>
  /\ failedAt = <<"column">>
  /\ Given(args.filter) /\ Given(args.out) /\ Given(args.upload)

FilterOk == InRan("filter") /\ failedAt # <<"filter">>

AlwaysTrue == \A i \in DOMAIN loaded[1].rows : EvalRow(args.filter[1], loaded[1].rows[i])

AlwaysFalse == \A i \in DOMAIN loaded[1].rows : ~EvalRow(args.filter[1], loaded[1].rows[i])

\* The rows of d are rows of src, each once and in the order of src.
InOriginalOrder(d, src) ==
  /\ \A i \in DOMAIN d.rows : \E j \in DOMAIN src.rows : d.rows[i] = src.rows[j]
  /\ \A i, j \in DOMAIN d.rows : i < j => d.rows[i].id < d.rows[j].id

ExactlyMatching(d, src, expr) ==
  /\ InOriginalOrder(d, src)
  /\ \A i \in DOMAIN d.rows : EvalRow(expr, d.rows[i])
  /\ \A j \in DOMAIN src.rows :
       EvalRow(expr, src.rows[j]) => \E i \in DOMAIN d.rows : d.rows[i] = src.rows[j]

FilterYieldsMatching ==
  FilterOk =>
    /\ ExactlyMatching(df, loaded[1], args.filter[1])
    /\ Logged("Filtered rows (first 10):\n%s", <<df>>)
    /\ AlwaysTrue => df = loaded[1]
    /\ AlwaysFalse =>
         /\ df.rows = <<>>
         /\ SavedOk => disk = <<<<loaded[1].columns>>>>
         /\ (pc = "exited" /\ failedAt = <<>>) => exitCode = <<0>>

\* C7 as stated: the Filter stage yields exactly the matching rows in their
\* order; col == col returns every row; an always-false expression gives
\* zero rows without an error, an empty preview and a header-only CSV.
C7_AsStated ==
  /\ FilterYieldsMatching
  /\ (FilterOk /\ args.filter[1] = "hr == hr") => df = loaded[1]

\* C7 amended: the same for an expression that is true of every row; col ==
\* col is true of the rows whose col is not missing, and returns those.
C7_FilterRows ==
  /\ FilterYieldsMatching
  /\ (FilterOk /\ args.filter[1] = "hr == hr") =>
       /\ \A i \in DOMAIN df.rows : df.rows[i].hr # NaN
       /\ Len(df.rows) = Cardinality({j \in DOMAIN loaded[1].rows : loaded[1].rows[j].hr # NaN})

C7_Witness ==
  /\ pc = "exited"
  /\ FilterOk
  /\ args.filter[1] = "hr != hr"
  /\ Len(loaded[1].rows) = MaxRows
  /\ AlwaysFalse
  /\ SavedOk
  /\ exitCode = <<0>>

\* C8: every error of a stage or of a collaborator is handled by the stage
\* that detected it, which logs an error and exits non-zero; none leaves its
\* stage unhandled, and upload_file is called at most once.
C8_HandledWhereDetected ==
  /\ ~uncaught
  /\ (pc = "exited" /\ exitCode # <<0>>) => log[Len(log)].level = "ERROR"
  /\ Cardinality({i \in DOMAIN net : net[i].fn = "upload_file"}) <= 1

\* C9: a failing stage halts the run there (it is the last stage that ran),
\* and the file Save wrote stays on disk with the content Save wrote, also
\* when Upload then fails and the run ends with exit code 1.
C9_HaltKeepsEffects ==
  /\ failedAt # <<>> =>
       /\ pc = "exited"
       /\ exitCode # <<0>>
       /\ failedAt[1] # "parse" => ran[Len(ran)] = failedAt[1]
       /\ failedAt[1] = "parse" => ran = <<>>
  /\ SavedOk => disk = <<ToCsv(seen["save"][1])>>
  /\ (pc = "exited" /\ SavedOk /\ failedAt = <<"upload">>) => exitCode = <<1>>

C9_Witness ==
  /\ pc = "exited"
  /\ SavedOk
  /\ failedAt = <<"upload">>
  /\ LoggedMsg("S3 upload failed: %s")
  /\ exitCode = <<1>>
  /\ disk = <<ToCsv(seen["save"][1])>>

\* C10: the target is split once on the first "/", and the format error is
\* reported only for a target without "/": a failure raised inside
\* upload_to_s3 is never reported as a format error.
C10_FormatErrorOnlyForFormat ==
  LoggedMsg(FormatMsg) => (~HasSep(args.upload[1]) /\ net = <<>>)
====
